---- MODULE Spec2Model ----
(***************************************************************************)
(* A model of i17o's translation statistics pipeline (src/docs.py):        *)
(* Transifex.stats, download_current_stats, select_report_files,           *)
(* serialize_report, compare_reports, report and main.                     *)
(*                                                                         *)
(* Representation.                                                         *)
(*  - A resource slug is a sequence of tokens, e.g. "a--x" is              *)
(*    <<"a", "-", "-", "x">> and "glossary_" is <<"glossary", "_">>, so    *)
(*    that str.split("--") and the ordering of sorted() are computed.      *)
(*  - A dict is a function; a dict whose key order is observable (the      *)
(*    return value of Transifex.stats) is a sequence of <<key, value>>.    *)
(*  - A snapshot file "<YYYY-MM-DD>.json" is named by its day number: ISO   *)
(*    dates sort by name exactly as the days sort by number.               *)
(***************************************************************************)
EXTENDS Integers, Sequences, FiniteSets, TLC

VARIABLES
    remote,   \* Transifex: slug -> the JSON object its stats endpoint answers
    store,    \* OUTPUT_DATA: day number -> content of "<day>.json"
    out,      \* the outcome of the last function that was applied
    pc,       \* where main() / download_current_stats is
    tasks,    \* the per-resource fetches of asyncio.gather: slug -> state
    clock,    \* wall clock: <<day number, slot of the day>>
    sent      \* Telegram: the set of <<user, message>> delivered

vars == <<remote, store, out, pc, tasks, clock, sent>>

----------------------------------------------------------------------------
(* Bounds of the model *)

\* the environment adds at most this many resources and fields in all
MaxEdits == 4
\* a statistic is in 0..MaxVal
MaxVal == 1
\* snapshot files a directory listing may hold (select_report_files)
MaxFiles == 9
\* days the wall clock runs over (main)
MaxDay == 7

----------------------------------------------------------------------------
(* Program constants *)

STATS_FIELDS ==
    <<"reviewed", "translated_entities", "translated_words",
      "untranslated_entities", "untranslated_words">>

Fields == {STATS_FIELDS[i] : i \in 1..Len(STATS_FIELDS)}

\* STATS_MESSAGES: the fields that have a message line
STATS_MESSAGES == {"reviewed", "translated_words"}

\* the whitelist of report()
ReportedFields == {"reviewed", "translated_words"}

\* BROADCAST_REPORT_TO, split on ","
Users == {"u1", "u2"}

GLOSSARY_ == <<"glossary", "_">>
GLOSSARY == <<"glossary">>
A == <<"a">>
AX == <<"a", "-", "-", "x">>
AY == <<"a", "-", "-", "y">>
B == <<"b">>

EmptyDict == <<>>

\* the default factory of the defaultdicts: every field 0
ZeroStats == [f \in Fields |-> 0]

----------------------------------------------------------------------------
(* Strings *)

\* code point order of the first characters of the tokens
TokenRank(t) ==
    CASE t = "-" -> 1
      [] t = "_" -> 2
      [] t = "a" -> 3
      [] t = "b" -> 4
      [] t = "glossary" -> 5
      [] t = "x" -> 6
      [] t = "y" -> 7

\* s < t as Python compares str
RECURSIVE StrLess(_, _)
StrLess(s, t) ==
    IF t = <<>> THEN FALSE
    ELSE IF s = <<>> THEN TRUE
    ELSE IF Head(s) = Head(t) THEN StrLess(Tail(s), Tail(t))
    ELSE TokenRank(Head(s)) < TokenRank(Head(t))

\* resource.split("--")[0]
RECURSIVE Split0(_)
Split0(s) ==
    IF s = <<>> THEN <<>>
    ELSE IF Len(s) >= 2 /\ s[1] = "-" /\ s[2] = "-" THEN <<>>
    ELSE <<Head(s)>> \o Split0(Tail(s))

MaxStr(S) == CHOOSE m \in S : \A s \in S : s = m \/ StrLess(s, m)
MinStr(S) == CHOOSE m \in S : \A s \in S : s = m \/ StrLess(m, s)

\* sorted(S, reverse=True)
RECURSIVE SortedReverse(_)
SortedReverse(S) ==
    IF S = {} THEN <<>>
    ELSE <<MaxStr(S)>> \o SortedReverse(S \ {MaxStr(S)})

\* sorted(S)
RECURSIVE Sorted(_)
Sorted(S) ==
    IF S = {} THEN <<>>
    ELSE <<MinStr(S)>> \o Sorted(S \ {MinStr(S)})

\* d[k] = v
DictSet(d, k, v) == [x \in DOMAIN d \cup {k} |-> IF x = k THEN v ELSE d[x]]

\* d without the key k
DictDel(d, k) == [x \in DOMAIN d \ {k} |-> d[x]]

----------------------------------------------------------------------------
(* serialize_report *)

\* updated_report[resource]: a defaultdict answers a missing key with its default
DefaultGet(d, k) == IF k \in DOMAIN d THEN d[k] ELSE ZeroStats

\* "=" in place of "+=": the last resource of a group overwrites the others
SerializeItem_Overwrites(updated_report, resource, stats, group_resources) ==
    LET key == IF group_resources THEN Split0(resource) ELSE resource
    IN  IF DOMAIN stats = {}
        THEN updated_report
        ELSE DictSet(updated_report, key,
                 [f \in Fields |->
                     IF f \in DOMAIN stats THEN stats[f]
                     ELSE DefaultGet(updated_report, key)[f]])

\* one turn of "for resource, stats in report.items()"
SerializeItem(updated_report, resource, stats, group_resources) ==
    LET key == IF group_resources THEN Split0(resource) ELSE resource
    IN  IF DOMAIN stats = {}
        THEN updated_report   \* the inner loop never touches updated_report[key]
        ELSE DictSet(updated_report, key,
                 [f \in Fields |->
                     DefaultGet(updated_report, key)[f]
                       + (IF f \in DOMAIN stats THEN stats[f] ELSE 0)])

RECURSIVE SerializeLoop(_, _, _, _)
SerializeLoop(updated_report, report, keys, group_resources) ==
    IF keys = <<>> THEN updated_report
    ELSE SerializeLoop(
             SerializeItem(updated_report, Head(keys), report[Head(keys)],
                           group_resources),
             report, Tail(keys), group_resources)

\* if updated_report.get("glossary_"): updated_report["glossary"] = updated_report.pop("glossary_")
RenameGlossary(updated_report) ==
    IF GLOSSARY_ \in DOMAIN updated_report
    THEN DictSet(DictDel(updated_report, GLOSSARY_), GLOSSARY,
                 updated_report[GLOSSARY_])
    ELSE updated_report

serialize_report(report, group_resources) ==
    RenameGlossary(
        SerializeLoop(EmptyDict, report, SortedReverse(DOMAIN report),
                      group_resources))

----------------------------------------------------------------------------
(* select_report_files *)

Max(S) == CHOOSE m \in S : \A x \in S : x <= m

\* sorted(os.listdir(output), reverse=True)
RECURSIVE ListDirReverse(_)
ListDirReverse(S) ==
    IF S = {} THEN <<>>
    ELSE <<Max(S)>> \o ListDirReverse(S \ {Max(S)})

\* the index of previous_file in stats_files (1-based: stats_files[6] is the 7th)
PreviousIndex(stats_files) ==
    IF Len(stats_files) > 7 THEN 6 + 1 ELSE Len(stats_files)

select_report_files(output) ==
    LET stats_files == ListDirReverse(DOMAIN output)
    IN  IF stats_files = <<>>
        THEN [status |-> "IndexError"]      \* stats_files[0]
        ELSE [status |-> "ok",
              latest_file |-> stats_files[1],
              previous_file |-> stats_files[PreviousIndex(stats_files)],
              latest |-> output[stats_files[1]],
              previous |-> output[stats_files[PreviousIndex(stats_files)]]]

----------------------------------------------------------------------------
(* compare_reports *)

\* a plain dict in place of the defaultdict: a missing resource is a KeyError
PreviousLookup_PlainDict(previous_report, resource) ==
    [found |-> resource \in DOMAIN previous_report,
     stats |-> DefaultGet(previous_report, resource)]

\* previous_report[resource]: previous_report is the defaultdict that
\* serialize_report returned, so a missing resource is found, all zero
PreviousLookup(previous_report, resource) ==
    [found |-> TRUE, stats |-> DefaultGet(previous_report, resource)]

\* the test "value != previous_value" left out: zero deltas are stored too
CompareStat_KeepsZero(report, previous_stats, resource, stat, value) ==
    DictSet(report, resource,
        DictSet(IF resource \in DOMAIN report THEN report[resource]
                ELSE EmptyDict,
                stat, value - previous_stats[stat]))

\* the test written "value > previous_value": only growth is stored
CompareStat_OnlyGrowth(report, previous_stats, resource, stat, value) ==
    IF value > previous_stats[stat]
    THEN DictSet(report, resource,
             DictSet(IF resource \in DOMAIN report THEN report[resource]
                     ELSE EmptyDict,
                     stat, value - previous_stats[stat]))
    ELSE report

\* one turn of "for stat, value in stats.items()"; report is a defaultdict(dict)
CompareStat(report, previous_stats, resource, stat, value) ==
    IF value # previous_stats[stat]
    THEN DictSet(report, resource,
             DictSet(IF resource \in DOMAIN report THEN report[resource]
                     ELSE EmptyDict,
                     stat, value - previous_stats[stat]))
    ELSE report

RECURSIVE CompareStats(_, _, _, _, _)
CompareStats(report, previous_stats, resource, stats, i) ==
    IF i > Len(STATS_FIELDS) THEN report
    ELSE CompareStats(
             CompareStat(report, previous_stats, resource, STATS_FIELDS[i],
                         stats[STATS_FIELDS[i]]),
             previous_stats, resource, stats, i + 1)

\* "for resource, stats in latest_report.items()"; acc is [status, report]
RECURSIVE CompareLoop(_, _, _, _)
CompareLoop(acc, latest_report, previous_report, keys) ==
    IF keys = <<>> \/ acc.status # "ok" THEN acc
    ELSE LET resource == Head(keys)
             prev == PreviousLookup(previous_report, resource)
         IN  IF ~prev.found
             THEN [status |-> "KeyError", report |-> EmptyDict]
             ELSE CompareLoop(
                      [status |-> "ok",
                       report |-> CompareStats(acc.report, prev.stats, resource,
                                               latest_report[resource], 1)],
                      latest_report, previous_report, Tail(keys))

\* the loop of compare_reports on two grouped snapshots
CompareGrouped(latest_report, previous_report) ==
    CompareLoop([status |-> "ok", report |-> EmptyDict],
                latest_report, previous_report,
                SortedReverse(DOMAIN latest_report))

compare_reports(output) ==
    LET reports == select_report_files(output)
    IN  IF reports.status # "ok"
        THEN [status |-> reports.status, report |-> EmptyDict]
        ELSE CompareGrouped(serialize_report(reports.latest, TRUE),
                            serialize_report(reports.previous, TRUE))

----------------------------------------------------------------------------
(* report *)

\* {k: v for k, v in report[resource].items() if k in ["reviewed", "translated_words"]}
\* assigned to every key of report: no key is removed
FilterReport(report) ==
    [resource \in DOMAIN report |->
        [k \in DOMAIN report[resource] \cap ReportedFields |->
            report[resource][k]]]

\* "if not report": a dict is falsy only when it has no key at all
NothingToReport(report) == DOMAIN report = {}

\* the lines "for stat, value in stats.items()" appends: stats keeps the
\* insertion order of the grouped record, which is that of STATS_FIELDS
RECURSIVE StatLines(_, _)
StatLines(stats, i) ==
    IF i > Len(STATS_FIELDS) THEN <<>>
    ELSE (IF STATS_FIELDS[i] \in DOMAIN stats
             /\ STATS_FIELDS[i] \in STATS_MESSAGES
          THEN << <<STATS_FIELDS[i], stats[STATS_FIELDS[i]]>> >>
          ELSE <<>>)
         \o StatLines(stats, i + 1)

\* "for resource, stats in sorted(report.items())"
RECURSIVE ResourceLines(_, _)
ResourceLines(report, keys) ==
    IF keys = <<>> THEN <<>>
    ELSE (IF DOMAIN report[Head(keys)] = {}
          THEN <<>>                                  \* if not stats: continue
          ELSE << <<"resource", Head(keys)>> >>
               \o StatLines(report[Head(keys)], 1))
         \o ResourceLines(report, Tail(keys))

Message(report) ==
    << <<"header", 7>> >> \o ResourceLines(report, Sorted(DOMAIN report))

\* report(): [status, report (after the filter), sends: the messages handed
\* to bot.send_message]
report_run(output) ==
    LET compared == compare_reports(output)
        filtered == FilterReport(compared.report)
    IN  IF compared.status # "ok"
        THEN [status |-> compared.status, report |-> EmptyDict, sends |-> {}]
        ELSE IF NothingToReport(filtered)
        THEN [status |-> "nothing", report |-> filtered, sends |-> {}]
        ELSE [status |-> "sent", report |-> filtered,
              sends |-> {<<user, Message(filtered)>> : user \in Users}]

----------------------------------------------------------------------------
(* The environment: what Transifex answers and what OUTPUT_DATA holds *)

Slugs == {A, AX, AY, B, GLOSSARY_, GLOSSARY}

\* resources and fields of a snapshot, counted together
SnapshotSize(snapshot) ==
    Cardinality(DOMAIN snapshot)
      + Cardinality(UNION {{<<r, f>> : f \in DOMAIN snapshot[r]} :
                              r \in DOMAIN snapshot})

RECURSIVE StoreSizeOver(_, _)
StoreSizeOver(output, days) ==
    IF days = {} THEN 0
    ELSE LET d == CHOOSE x \in days : TRUE
         IN  SnapshotSize(output[d]) + StoreSizeOver(output, days \ {d})

StoreSize(output) == StoreSizeOver(output, DOMAIN output)

\* the snapshot with one more resource, its JSON object still empty
WithResource(snapshot, slug) == DictSet(snapshot, slug, EmptyDict)

\* the snapshot with one more field in a resource's JSON object
WithField(snapshot, slug, field, value) ==
    DictSet(snapshot, slug, DictSet(snapshot[slug], field, value))

NoneOut == [op |-> "none"]

----------------------------------------------------------------------------
(* SpecReport: compare_reports and report over a directory of up to two    *)
(* snapshot files of any content                                           *)

ReportSlugs == {A, AX, B}

InitReport ==
    /\ remote = EmptyDict
    /\ store \in {[d \in 1..n |-> EmptyDict] : n \in 0..2}
    /\ out = NoneOut
    /\ pc = "idle"
    /\ tasks = EmptyDict
    /\ clock = <<0, "00:00">>
    /\ sent = {}

\* a file of OUTPUT_DATA holds one more resource
FileGainsResource ==
    /\ out = NoneOut
    /\ StoreSize(store) < MaxEdits
    /\ \E d \in DOMAIN store : \E slug \in ReportSlugs \ DOMAIN store[d] :
           store' = [store EXCEPT ![d] = WithResource(store[d], slug)]
    /\ UNCHANGED <<remote, out, pc, tasks, clock, sent>>

\* a resource of a file of OUTPUT_DATA holds one more field
FileGainsField ==
    /\ out = NoneOut
    /\ StoreSize(store) < MaxEdits
    /\ \E d \in DOMAIN store : \E slug \in DOMAIN store[d] :
       \E field \in Fields \ DOMAIN store[d][slug] : \E value \in 0..MaxVal :
           store' = [store EXCEPT ![d] = WithField(store[d], slug, field, value)]
    /\ UNCHANGED <<remote, out, pc, tasks, clock, sent>>

RunCompare ==
    /\ out = NoneOut
    /\ out' = [op |-> "compare_reports", res |-> compare_reports(store)]
    /\ UNCHANGED <<remote, store, pc, tasks, clock, sent>>

RunReport ==
    /\ out = NoneOut
    /\ out' = [op |-> "report", res |-> report_run(store)]
    /\ sent' = sent \cup report_run(store).sends
    /\ UNCHANGED <<remote, store, pc, tasks, clock>>

NextReport == FileGainsResource \/ FileGainsField \/ RunCompare \/ RunReport

SpecReport == InitReport /\ [][NextReport]_vars

----------------------------------------------------------------------------
(* Claims about compare_reports and report, checked under SpecReport *)

\* the (resource, field) pairs a delta report holds
Pairs(report) ==
    UNION {{<<r, f>> : f \in DOMAIN report[r]} : r \in DOMAIN report}

Compared == out.op = "compare_reports" /\ DOMAIN store # {}

\* the two grouped snapshots compare_reports works on
LatestReport == serialize_report(select_report_files(store).latest, TRUE)
PreviousReport == serialize_report(select_report_files(store).previous, TRUE)

\* C3: the delta report holds (r, f) exactly for the resources r of latest and
\* the fields f whose values differ between latest and reference (reference
\* being the defaultdict serialize_report returned, an absent resource reads
\* as all zero); the value is latest - reference, never 0; no resource maps
\* to an empty mapping; a snapshot compared with itself gives an empty report.
C3_DeltaIsExactlyTheDifferences ==
    Compared =>
        LET L == LatestReport
            P == PreviousReport
            R == out.res.report
        IN  /\ out.res.status = "ok"
            /\ Pairs(R) = {p \in (DOMAIN L) \X Fields :
                              L[p[1]][p[2]] # DefaultGet(P, p[1])[p[2]]}
            /\ \A p \in Pairs(R) :
                   /\ R[p[1]][p[2]] = L[p[1]][p[2]] - DefaultGet(P, p[1])[p[2]]
                   /\ R[p[1]][p[2]] # 0
            /\ \A r \in DOMAIN R : DOMAIN R[r] # {}
            /\ (select_report_files(store).latest
                  = select_report_files(store).previous => R = EmptyDict)

\* C3 witness: a resource of both snapshots with one field retained and
\* another omitted.
C3_Witness ==
    /\ Compared
    /\ \E r \in DOMAIN LatestReport \cap DOMAIN PreviousReport :
           /\ \E f \in Fields : <<r, f>> \in Pairs(out.res.report)
           /\ \E g \in Fields : <<r, g>> \notin Pairs(out.res.report)

\* C4 as claimed: for any two grouped snapshots, whatever their resource sets,
\* swapping latest and reference negates every retained delta and keeps the
\* set of (resource, field) pairs.
C4_AntiSymmetricForAnyResourceSets ==
    Compared =>
        LET R1 == out.res.report
            R2 == CompareGrouped(PreviousReport, LatestReport).report
        IN  /\ Pairs(R1) = Pairs(R2)
            /\ \A p \in Pairs(R1) : R2[p[1]][p[2]] = 0 - R1[p[1]][p[2]]

\* C4 amended: on the resources that both grouped snapshots hold, swapping
\* latest and reference negates every retained delta and keeps the set of
\* (resource, field) pairs; a resource of only one snapshot is reported only
\* when that snapshot is latest.
C4_AntiSymmetricOnCommonResources ==
    Compared =>
        LET L == LatestReport
            P == PreviousReport
            R1 == out.res.report
            R2 == CompareGrouped(P, L).report
            Common(R) == {p \in Pairs(R) : p[1] \in DOMAIN L \cap DOMAIN P}
        IN  /\ Common(R1) = Common(R2)
            /\ \A p \in Common(R1) : R2[p[1]][p[2]] = 0 - R1[p[1]][p[2]]
            /\ \A p \in Pairs(R1) : p[1] \in DOMAIN L
            /\ \A p \in Pairs(R2) : p[1] \in DOMAIN P

\* C4 witness: a delta retained for a resource of both snapshots, whose
\* negation the swapped comparison retains.
C4_Witness ==
    /\ Compared
    /\ \E p \in Pairs(out.res.report) :
           /\ p[1] \in DOMAIN LatestReport \cap DOMAIN PreviousReport
           /\ p \in Pairs(CompareGrouped(PreviousReport, LatestReport).report)

\* C5 as claimed: a resource of latest with no key in reference makes
\* compare_reports fail with a lookup failure and produce no report.
C5_MissingReferenceResourceFails ==
    (Compared /\ DOMAIN LatestReport \ DOMAIN PreviousReport # {}) =>
        /\ out.res.status = "KeyError"
        /\ out.res.report = EmptyDict

\* C5 amended: a resource of latest with no key in reference does not make
\* compare_reports fail; the resource is compared with an all-zero record, so
\* the report holds exactly its non-zero fields, each with latest's value.
C5_MissingReferenceResourceIsZero ==
    (Compared /\ DOMAIN LatestReport \ DOMAIN PreviousReport # {}) =>
        LET L == LatestReport
            R == out.res.report
        IN  /\ out.res.status = "ok"
            /\ \A r \in DOMAIN L \ DOMAIN PreviousReport : \A f \in Fields :
                   IF L[r][f] # 0
                   THEN r \in DOMAIN R /\ f \in DOMAIN R[r] /\ R[r][f] = L[r][f]
                   ELSE <<r, f>> \notin Pairs(R)

\* C5 witness: latest holds a resource with a non-zero field that reference
\* has no key for, and compare_reports has run.
C5_Witness ==
    /\ Compared
    /\ \E r \in DOMAIN LatestReport \ DOMAIN PreviousReport :
           \E f \in Fields : LatestReport[r][f] # 0

\* the delta report restricted to the whitelisted fields, the resources left
\* empty by the restriction dropped
Reportable(report) ==
    [r \in {x \in DOMAIN report : DOMAIN report[x] \cap ReportedFields # {}} |->
        [k \in DOMAIN report[r] \cap ReportedFields |-> report[r][k]]]

\* C1: report() sends nothing whenever the delta report, restricted to the
\* whitelisted fields and with emptied resources dropped, is empty.
C1_NoSendWhenNothingReportable ==
    (out.op = "report" /\ Reportable(compare_reports(store).report) = EmptyDict)
        => sent = {}

----------------------------------------------------------------------------
(* Transifex.stats *)

\* "for resource, stat in response: stats[resource] = stat"
RECURSIVE StatsLoop(_, _)
StatsLoop(stats, response) ==
    IF response = <<>> THEN stats
    ELSE StatsLoop(DictSet(stats, Head(response)[1], Head(response)[2]),
                   Tail(response))

\* stats["glossary"] = stats.pop("glossary_"): dict.pop of a missing key
\* raises KeyError, on a defaultdict too
PopGlossary(stats) ==
    IF GLOSSARY_ \in DOMAIN stats
    THEN [status |-> "ok",
          stats |-> DictSet(DictDel(stats, GLOSSARY_), GLOSSARY, stats[GLOSSARY_])]
    ELSE [status |-> "KeyError", stats |-> stats]

\* {key: stats[key] for key in sorted(stats.keys(), reverse=True)}
RECURSIVE InOrder(_, _)
InOrder(stats, keys) ==
    IF keys = <<>> THEN <<>>
    ELSE << <<Head(keys), stats[Head(keys)]>> >> \o InOrder(stats, Tail(keys))

\* Transifex.stats once every fetch has answered; response is what gather
\* returns, the <<resource, stat>> pairs in the order of resources
stats_fold(response) ==
    LET popped == PopGlossary(StatsLoop(EmptyDict, response))
    IN  IF popped.status # "ok"
        THEN [status |-> popped.status, value |-> <<>>]
        ELSE [status |-> "ok",
              value |-> InOrder(popped.stats,
                                SortedReverse(DOMAIN popped.stats))]

\* the orders in which the resource listing may name the resources of S
RECURSIVE Listings(_)
Listings(S) ==
    IF S = {} THEN {<<>>}
    ELSE UNION {{<<r>> \o rest : rest \in Listings(S \ {r})} : r \in S}

\* what gather returns for a listing when every fetch succeeds
Responses(resources, answers) ==
    [i \in 1..Len(resources) |-> <<resources[i], answers[resources[i]]>>]

\* json.dumps then json.load of the dict Transifex.stats returned
AsDict(pairs) ==
    [k \in {pairs[i][1] : i \in 1..Len(pairs)} |->
        LET i == CHOOSE j \in 1..Len(pairs) : pairs[j][1] = k IN pairs[i][2]]

----------------------------------------------------------------------------
(* SpecAggregate: Transifex.stats and serialize_report applied to raw       *)
(* per-resource statistics of any content                                    *)

InitAggregate ==
    /\ remote = EmptyDict
    /\ store = EmptyDict
    /\ out = NoneOut
    /\ pc = "idle"
    /\ tasks = EmptyDict
    /\ clock = <<0, "00:00">>
    /\ sent = {}

\* Transifex lists one more resource
RemoteGainsResource ==
    /\ out = NoneOut
    /\ SnapshotSize(remote) < MaxEdits
    /\ \E slug \in Slugs \ DOMAIN remote :
           remote' = WithResource(remote, slug)
    /\ UNCHANGED <<store, out, pc, tasks, clock, sent>>

\* the statistics of a resource hold one more field
RemoteGainsField ==
    /\ out = NoneOut
    /\ SnapshotSize(remote) < MaxEdits
    /\ \E slug \in DOMAIN remote : \E field \in Fields \ DOMAIN remote[slug] :
       \E value \in 0..MaxVal :
           remote' = WithField(remote, slug, field, value)
    /\ UNCHANGED <<store, out, pc, tasks, clock, sent>>

RunStats ==
    /\ out = NoneOut
    /\ \E resources \in Listings(DOMAIN remote) :
           out' = [op |-> "stats",
                   res |-> stats_fold(Responses(resources, remote))]
    /\ UNCHANGED <<remote, store, pc, tasks, clock, sent>>

RunSerialize ==
    /\ out = NoneOut
    /\ \E group_resources \in BOOLEAN :
           out' = [op |-> "serialize_report", group |-> group_resources,
                   res |-> serialize_report(remote, group_resources)]
    /\ UNCHANGED <<remote, store, pc, tasks, clock, sent>>

NextAggregate ==
    RemoteGainsResource \/ RemoteGainsField \/ RunStats \/ RunSerialize

SpecAggregate == InitAggregate /\ [][NextAggregate]_vars

----------------------------------------------------------------------------
(* Claims about serialize_report and Transifex.stats, under SpecAggregate *)

\* the sum of a field over the identifiers of a set, a missing field being 0
RECURSIVE SumOver(_, _, _)
SumOver(S, ids, f) ==
    IF ids = {} THEN 0
    ELSE LET r == CHOOSE x \in ids : TRUE
         IN  (IF f \in DOMAIN S[r] THEN S[r][f] ELSE 0)
               + SumOver(S, ids \ {r}, f)

\* the identifiers of S whose prefix is p
WithPrefix(S, p) == {r \in DOMAIN S : Split0(r) = p}

Grouped == out.op = "serialize_report" /\ out.group

\* every resource of the input carries at least one statistic
AllCarryStats == \A r \in DOMAIN remote : DOMAIN remote[r] # {}

PrefixesWithFields(S) == {Split0(r) : r \in {x \in DOMAIN S : DOMAIN S[x] # {}}}

Padded(stat) == [f \in Fields |-> IF f \in DOMAIN stat THEN stat[f] ELSE 0]

\* C7: no output of Transifex.stats or serialize_report has the key
\* "glossary_"; when the input has "glossary_" the output has "glossary" with
\* the statistics of "glossary_"; the statistics of every other input
\* resource are still in the output (stated here for the inputs whose every
\* resource carries at least one statistic).
C7_GlossaryRenamedNothingLost ==
    AllCarryStats =>
    /\ (out.op = "stats" /\ out.res.status = "ok") =>
           LET D == AsDict(out.res.value)
           IN  /\ GLOSSARY_ \notin DOMAIN D
               /\ GLOSSARY_ \in DOMAIN remote =>
                      GLOSSARY \in DOMAIN D /\ D[GLOSSARY] = remote[GLOSSARY_]
               /\ \A r \in DOMAIN remote \ {GLOSSARY_} :
                      r \in DOMAIN D /\ D[r] = remote[r]
    /\ (out.op = "serialize_report" /\ ~out.group) =>
           /\ GLOSSARY_ \notin DOMAIN out.res
           /\ GLOSSARY_ \in DOMAIN remote =>
                  /\ GLOSSARY \in DOMAIN out.res
                  /\ out.res[GLOSSARY] = Padded(remote[GLOSSARY_])
           /\ \A r \in DOMAIN remote \ {GLOSSARY_} :
                  r \in DOMAIN out.res /\ out.res[r] = Padded(remote[r])
    /\ Grouped =>
           /\ GLOSSARY_ \notin DOMAIN out.res
           /\ \A r \in DOMAIN remote :
                  LET k == IF Split0(r) = GLOSSARY_ THEN GLOSSARY ELSE Split0(r)
                  IN  /\ k \in DOMAIN out.res
                      /\ \A f \in Fields :
                             out.res[k][f]
                               = SumOver(remote, WithPrefix(remote, Split0(r)), f)

\* C9: whenever every fetch succeeds, with or without "glossary_" in the
\* listing, Transifex.stats returns a snapshot whose keys are the fetched
\* identifiers with "glossary_" replaced by "glossary", each key with the
\* record fetched for it, the keys in descending order.
C9_StatsReturnsRenamedSortedSnapshot ==
    out.op = "stats" =>
        LET v == out.res.value
            D == AsDict(v)
        IN  /\ out.res.status = "ok"
            /\ DOMAIN D = {IF r = GLOSSARY_ THEN GLOSSARY ELSE r : r \in DOMAIN remote}
            /\ Len(v) = Cardinality(DOMAIN D)
            /\ \A r \in DOMAIN remote :
                   D[IF r = GLOSSARY_ THEN GLOSSARY ELSE r] = remote[r]
            /\ \A i \in 1..Len(v) : \A j \in 1..Len(v) :
                   i < j => StrLess(v[j][1], v[i][1])

----------------------------------------------------------------------------
(* SpecSelect: select_report_files over a directory of any set of days *)

\* the content of the snapshot file of day d: told apart by its number
FileOfDay(d) == (A :> [reviewed |-> d])

InitSelect ==
    /\ remote = EmptyDict
    /\ store \in {[d \in D |-> FileOfDay(d)] : D \in SUBSET (1..MaxFiles)}
    /\ out = NoneOut
    /\ pc = "idle"
    /\ tasks = EmptyDict
    /\ clock = <<0, "00:00">>
    /\ sent = {}

RunSelect ==
    /\ out = NoneOut
    /\ out' = [op |-> "select_report_files", res |-> select_report_files(store)]
    /\ UNCHANGED <<remote, store, pc, tasks, clock, sent>>

NextSelect == RunSelect

SpecSelect == InitSelect /\ [][NextSelect]_vars

\* the file with exactly k newer files in the directory
NthNewest(days, k) == CHOOSE d \in days : Cardinality({e \in days : e > d}) = k

\* C2: with n >= 1 files and the window of 7 days, latest is the newest file
\* and reference is the file 7 positions after it in descending order when
\* n >= 8, the oldest file when n < 8.
C2_ReferenceIsSevenFilesBack ==
    (out.op = "select_report_files" /\ DOMAIN store # {}) =>
        LET n == Cardinality(DOMAIN store)
            reference == NthNewest(DOMAIN store, IF n >= 8 THEN 7 ELSE n - 1)
        IN  /\ out.res.status = "ok"
            /\ out.res.latest_file = NthNewest(DOMAIN store, 0)
            /\ out.res.latest = store[NthNewest(DOMAIN store, 0)]
            /\ out.res.previous_file = reference
            /\ out.res.previous = store[reference]

----------------------------------------------------------------------------
(* SpecDownload: one run of download_current_stats, its fetches interleaved *)

DownloadSlugs == {A, B, GLOSSARY_}

\* what the stats endpoint answers for a resource: the five fields
Answer(slug) == [f \in Fields |-> IF slug = A THEN 1 ELSE 0]

\* a snapshot file of an earlier run
EarlierFile == (GLOSSARY :> ZeroStats)

Today == clock[1]

InitDownload ==
    /\ remote \in {[r \in D |-> Answer(r)] : D \in SUBSET DownloadSlugs}
    /\ clock = <<2, "23:59">>
    /\ store \in {[d \in D |-> EarlierFile] : D \in SUBSET {1, 2}}
    /\ out = NoneOut
    /\ pc = "start"
    /\ tasks = EmptyDict
    /\ sent = {}

\* resources = await transifex.resources(): the listing answers, in some order
ListResources ==
    /\ pc = "start"
    /\ \E resources \in Listings(DOMAIN remote) :
           out' = [op |-> "download_current_stats", before |-> store,
                   listing |-> "ok", resources |-> resources]
    /\ tasks' = [r \in DOMAIN remote |-> "pending"]   \* gather schedules them all
    /\ pc' = "gather"
    /\ UNCHANGED <<remote, store, clock, sent>>

\* transifex.resources() raises
ListResourcesFails ==
    /\ pc = "start"
    /\ out' = [op |-> "download_current_stats", before |-> store,
               listing |-> "failed", resources |-> <<>>]
    /\ pc' = "failed"
    /\ UNCHANGED <<remote, store, tasks, clock, sent>>

\* one resource_stat coroutine returns its <<resource, response>>
FetchSucceeds ==
    /\ pc = "gather"
    /\ \E r \in DOMAIN tasks :
           /\ tasks[r] = "pending"
           /\ tasks' = [tasks EXCEPT ![r] = "done"]
    /\ UNCHANGED <<remote, store, out, pc, clock, sent>>

\* one resource_stat coroutine raises
FetchFails ==
    /\ pc = "gather"
    /\ \E r \in DOMAIN tasks :
           /\ tasks[r] = "pending"
           /\ tasks' = [tasks EXCEPT ![r] = "failed"]
    /\ UNCHANGED <<remote, store, out, pc, clock, sent>>

\* asyncio.gather without return_exceptions: what "await gather" does next
GatherOutcome_SkipsFailures(t) ==
    IF \A r \in DOMAIN t : t[r] # "pending" THEN "return" ELSE "wait"

GatherOutcome(t) ==
    IF \E r \in DOMAIN t : t[r] = "failed" THEN "raise"
    ELSE IF \A r \in DOMAIN t : t[r] = "done" THEN "return"
    ELSE "wait"

\* the first failure propagates out of download_current_stats; the fetches
\* still pending are abandoned with the session
GatherRaises ==
    /\ pc = "gather"
    /\ GatherOutcome(tasks) = "raise"
    /\ pc' = "failed"
    /\ UNCHANGED <<remote, store, out, tasks, clock, sent>>

\* the listed resources whose fetch returned, in the order of the listing
RECURSIVE Fetched(_, _)
Fetched(resources, t) ==
    IF resources = <<>> THEN <<>>
    ELSE (IF t[Head(resources)] = "done" THEN <<Head(resources)>> ELSE <<>>)
         \o Fetched(Tail(resources), t)

\* gather returns; Transifex.stats folds; the file of today is written
GatherReturns ==
    /\ pc = "gather"
    /\ GatherOutcome(tasks) = "return"
    /\ LET stats == stats_fold(Responses(Fetched(out.resources, tasks), remote))
       IN  IF stats.status = "ok"
           THEN /\ store' = DictSet(store, Today, AsDict(stats.value))
                /\ pc' = "done"
           ELSE /\ store' = store      \* KeyError: no "glossary_" was listed
                /\ pc' = "failed"
    /\ UNCHANGED <<remote, out, tasks, clock, sent>>

NextDownload ==
    \/ ListResources
    \/ ListResourcesFails
    \/ FetchSucceeds
    \/ FetchFails
    \/ GatherRaises
    \/ GatherReturns

SpecDownload == InitDownload /\ [][NextDownload]_vars

AnyFetchFailed ==
    /\ out.op = "download_current_stats"
    /\ \/ out.listing = "failed"
       \/ \E r \in DOMAIN tasks : tasks[r] = "failed"

\* C8: whatever the interleaving of the fetches, once the listing or any one
\* fetch has failed the run never completes and writes nothing: the
\* directory is as it was when the run began (no file of today is created,
\* no file is changed).
C8_AnyFailureWritesNothing ==
    AnyFetchFailed => (pc # "done" /\ store = out.before)

\* C8 witness: the run has failed with one fetch failed and the fetch of
\* "glossary_" and another returned, beside an earlier file in the directory.
C8_Witness ==
    /\ pc = "failed"
    /\ DOMAIN store # {}
    /\ GLOSSARY_ \in DOMAIN tasks /\ tasks[GLOSSARY_] = "done"
    /\ \E r \in DOMAIN tasks : tasks[r] = "failed"

----------------------------------------------------------------------------
(* Spec: main() *)

Slots == <<"00:00", "18:00", "23:59">>

\* day 0 is a Sunday
IsSunday(day) == day % 7 = 0

Init ==
    /\ remote \in {[r \in D |-> Answer(r)] : D \in SUBSET DownloadSlugs}
    /\ clock \in (1..MaxDay) \X {Slots[i] : i \in 1..Len(Slots)}
    /\ store \in {[d \in D |-> EarlierFile] : D \in SUBSET {clock[1] - 1}}
    /\ out = NoneOut
    /\ pc = "line 187"
    /\ tasks = EmptyDict
    /\ sent = {}

\* time passes
Tick ==
    /\ \/ /\ clock[2] = "00:00"
          /\ clock' = <<clock[1], "18:00">>
       \/ /\ clock[2] = "18:00"
          /\ clock' = <<clock[1], "23:59">>
       \/ /\ clock[2] = "23:59"
          /\ clock[1] < MaxDay
          /\ clock' = <<clock[1] + 1, "00:00">>
    /\ UNCHANGED <<remote, store, out, pc, tasks, sent>>

\* line 187: run_daily_stats(), to completion; an exception of
\* download_current_stats ends main()
MainRunsDailyStats ==
    /\ pc = "line 187"
    /\ \E resources \in Listings(DOMAIN remote) : \E fails \in BOOLEAN :
           LET stats == stats_fold(Responses(resources, remote))
           IN  IF fails \/ stats.status # "ok"
               THEN /\ store' = store
                    /\ pc' = "crashed"
               ELSE /\ store' = DictSet(store, Today, AsDict(stats.value))
                    /\ pc' = "line 188"
    /\ out' = [op |-> "run_daily_stats", by |-> "main", at |-> clock]
    /\ UNCHANGED <<remote, tasks, clock, sent>>

\* line 188, the argument of do(): asyncio.run(report()) runs report() now
\* and evaluates to None
MainRunsReport ==
    /\ pc = "line 188"
    /\ out' = [op |-> "report", by |-> "main", at |-> clock,
               res |-> report_run(store)]
    /\ sent' = sent \cup report_run(store).sends
    /\ pc' = "line 188 do"
    /\ UNCHANGED <<remote, store, tasks, clock>>

\* line 188, do(None): functools.partial(None) raises TypeError, which ends
\* main() before line 189; the loop of lines 190-192 is never entered
MainRegistersNone ==
    /\ pc = "line 188 do"
    /\ pc' = "TypeError"
    /\ UNCHANGED <<remote, store, out, tasks, clock, sent>>

Next == Tick \/ MainRunsDailyStats \/ MainRunsReport \/ MainRegistersNone

Spec == Init /\ [][Next]_vars

\* C10: once main() is started the process stays in its scheduling loop;
\* report() runs only from the loop, at the weekly trigger (Sunday 18:00).
C10_ReportRunsOnlyAtWeeklyTrigger ==
    /\ pc # "TypeError"
    /\ out.op = "report" =>
           /\ out.by = "run_pending"
           /\ IsSunday(out.at[1]) /\ out.at[2] = "18:00"

====
